---- MODULE Spec2Model ----
(***************************************************************************)
(* Model of src/components/dataset_loader.py: the DatasetLoader class, its *)
(* constructor and its load_dataset method.                                *)
(*                                                                         *)
(* Strings are sequences of one-character strings, so that os.path.join,   *)
(* os.path.normpath and the f-string messages are computed the way the     *)
(* code computes them.  A literal piece of text that is never inspected is *)
(* written as one opaque element (<<"Dataset '">>).                        *)
(*                                                                         *)
(* Paths follow posixpath.  The filesystem holds directories only; it is   *)
(* the set of the absolute normalised paths that exist.                    *)
(*                                                                         *)
(* The external library call datasets.load_dataset is the environment: it  *)
(* either produces a dataset object or raises an instance of one of the    *)
(* classes in LibraryRaises, chosen nondeterministically.  Interpreter     *)
(* exit signals (KeyboardInterrupt, SystemExit) are not failures of the    *)
(* call and are not part of the model.  The print calls are diagnostics    *)
(* only and are not modelled.                                              *)
(***************************************************************************)
EXTENDS Integers, Sequences, FiniteSets, TLC

VARIABLES
    fs,               \* directories that exist (absolute normalised path strings)
    local_cache_dir,  \* self.local_cache_dir of the current loader, <<>> when there is none
    made,             \* directories created by the loader's own os.makedirs calls
    ctorArg,          \* the path the last construction was given
    ctorPre,          \* "none" | "absent" | "present": the directory before the last construction
    ctorError,        \* the last construction raised
    pc,               \* position of the loader / of the running load_dataset invocation
    dataset_name,     \* argument of the running invocation
    split,            \* argument of the running invocation
    dataset_path,     \* local variable dataset_path (line 40)
    existed,          \* "unchecked" | "yes" | "no": what os.path.exists answered (line 43)
    calls,            \* the library calls made by the running invocation, in order
    libResult,        \* the dataset object the library produced, NoData when none
    original,         \* the failure raised inside the try block, NoExc when none
    result,           \* the value returned to the caller, NoData when none
    raised,           \* the failure surfaced to the caller, NoExc when none
    cause,            \* __cause__ of the surfaced failure
    handled           \* number of except clauses that ran in this invocation

vars == <<fs, local_cache_dir, made, ctorArg, ctorPre, ctorError, pc, dataset_name, split,
          dataset_path, existed, calls, libResult, original, result, raised, cause,
          handled>>

----------------------------------------------------------------------------
(* Bounds and input sets *)

MaxNameLen == 3

NameChars == {"a", "/", "."}

RECURSIVE StringsUpTo(_)
StringsUpTo(n) ==
    IF n = 0 THEN {<<>>}
    ELSE LET shorter == StringsUpTo(n - 1)
         IN  shorter \cup {Append(s, c) : s \in {t \in shorter : Len(t) = n - 1}, c \in NameChars}

DatasetNames == StringsUpTo(MaxNameLen)

Splits == {<<"test">>, <<"train">>}

\* the paths a loader is constructed with: relative, nested with a missing
\* parent, and one that is not yet normalised
CacheDirInputs ==
    { <<"c">>,
      <<"/", "c", "/", "a">>,
      <<"/", "d", "/", ".", ".", "/", ".", "/", "c", "/">> }

Cwd == <<"/", "w">>

\* the subdirectory a successful download leaves under its cache_dir
HubDir == <<"a">>

----------------------------------------------------------------------------
(* Strings *)

startswith(s, p) == Len(s) >= Len(p) /\ SubSeq(s, 1, Len(p)) = p

endswith(s, p) == Len(s) >= Len(p) /\ SubSeq(s, Len(s) - Len(p) + 1, Len(s)) = p

\* p in s
Contains(s, p) == \E i \in 0..(Len(s) - Len(p)) : SubSeq(s, i + 1, i + Len(p)) = p

\* s.split('/')
RECURSIVE SplitSlash(_)
SplitSlash(s) ==
    IF \A i \in 1..Len(s) : s[i] # "/" THEN <<s>>
    ELSE LET i == CHOOSE k \in 1..Len(s) : s[k] = "/" /\ \A j \in 1..(k - 1) : s[j] # "/"
         IN  <<SubSeq(s, 1, i - 1)>> \o SplitSlash(SubSeq(s, i + 1, Len(s)))

\* '/'.join(comps)
RECURSIVE JoinSlash(_)
JoinSlash(comps) ==
    IF comps = <<>> THEN <<>>
    ELSE IF Len(comps) = 1 THEN comps[1]
    ELSE comps[1] \o <<"/">> \o JoinSlash(Tail(comps))

Front(s) == SubSeq(s, 1, Len(s) - 1)

----------------------------------------------------------------------------
(* posixpath *)

isabs(path) == startswith(path, <<"/">>)

\* os.path.join(a, b)
joinNoSeparator(a, b) ==
    IF startswith(b, <<"/">>) THEN b ELSE a \o b

join(a, b) ==
    IF startswith(b, <<"/">>) THEN b
    ELSE IF a = <<>> \/ endswith(a, <<"/">>) THEN a \o b
    ELSE a \o <<"/">> \o b

\* the loop of normpath over the components
RECURSIVE NormFold(_, _, _)
NormFold(comps, initial_slashes, new_comps) ==
    IF comps = <<>> THEN new_comps
    ELSE LET comp == Head(comps)
             next ==
                 IF comp = <<>> \/ comp = <<".">> THEN new_comps
                 ELSE IF \/ comp # <<".", ".">>
                         \/ (initial_slashes = 0 /\ new_comps = <<>>)
                         \/ (new_comps # <<>> /\ new_comps[Len(new_comps)] = <<".", ".">>)
                      THEN Append(new_comps, comp)
                 ELSE IF new_comps # <<>> THEN Front(new_comps)
                 ELSE new_comps
         IN  NormFold(Tail(comps), initial_slashes, next)

RECURSIVE Slashes(_)
Slashes(n) == IF n = 0 THEN <<>> ELSE <<"/">> \o Slashes(n - 1)

normpath(path) ==
    IF path = <<>> THEN <<".">>
    ELSE LET initial_slashes ==
                 IF ~startswith(path, <<"/">>) THEN 0
                 ELSE IF startswith(path, <<"/", "/">>) /\ ~startswith(path, <<"/", "/", "/">>)
                      THEN 2
                 ELSE 1
             comps == NormFold(SplitSlash(path), initial_slashes, <<>>)
             p == Slashes(initial_slashes) \o JoinSlash(comps)
         IN  IF p = <<>> THEN <<".">> ELSE p

abspath(path) ==
    normpath(IF isabs(path) THEN path ELSE join(Cwd, path))

\* the components of a normalised absolute path
Components(p) == SelectSeq(SplitSlash(p), LAMBDA c : c # <<>>)

ToPath(comps) == <<"/">> \o JoinSlash(comps)

\* the kernel's walk of a path: every component passed must be an existing
\* directory, ".." steps to the parent, "." and empty components stay
RECURSIVE Walk(_, _, _)
Walk(dirs, comps, cur) ==
    IF comps = <<>> THEN [ok |-> TRUE, at |-> cur]
    ELSE LET comp == Head(comps)
         IN  IF comp = <<>> \/ comp = <<".">> THEN Walk(dirs, Tail(comps), cur)
             ELSE IF comp = <<".", ".">>
                  THEN Walk(dirs, Tail(comps), IF cur = <<>> THEN cur ELSE Front(cur))
             ELSE IF ToPath(Append(cur, comp)) \in dirs
                  THEN Walk(dirs, Tail(comps), Append(cur, comp))
             ELSE [ok |-> FALSE, at |-> cur]

\* os.path.exists(path)
exists(dirs, path) ==
    /\ path # <<>>
    /\ Walk(dirs, SplitSlash(path), IF isabs(path) THEN <<>> ELSE Components(Cwd)).ok

\* os.makedirs(name, exist_ok=exist_ok) on an absolute normalised name, given
\* by its components: the missing parents first, then mkdir of the leaf
RECURSIVE makedirs(_, _, _)
makedirs(dirs, comps, exist_ok) ==
    IF comps = <<>> THEN [ok |-> exist_ok, fs |-> dirs]
    ELSE LET head == Front(comps)
             withHead == IF ToPath(head) \in dirs THEN dirs
                         ELSE makedirs(dirs, head, exist_ok).fs
         IN  IF ToPath(comps) \in withHead
             THEN [ok |-> exist_ok, fs |-> withHead]
             ELSE [ok |-> TRUE, fs |-> withHead \cup {ToPath(comps)}]

----------------------------------------------------------------------------
(* Exceptions *)

\* the built-in exception classes involved, each with its base class
Classes ==
    {"BaseException", "Exception", "OSError", "FileNotFoundError", "PermissionError",
     "ConnectionError", "ConnectionResetError", "ValueError", "UnicodeDecodeError",
     "TypeError", "RuntimeError"}

BaseOf(cls) ==
    CASE cls = "Exception"            -> "BaseException"
      [] cls = "OSError"              -> "Exception"
      [] cls = "FileNotFoundError"    -> "OSError"
      [] cls = "PermissionError"      -> "OSError"
      [] cls = "ConnectionError"      -> "OSError"
      [] cls = "ConnectionResetError" -> "ConnectionError"
      [] cls = "ValueError"           -> "Exception"
      [] cls = "UnicodeDecodeError"   -> "ValueError"
      [] cls = "TypeError"            -> "Exception"
      [] cls = "RuntimeError"         -> "Exception"
      [] OTHER                        -> "BaseException"

RECURSIVE IsInstance(_, _)
IsInstance(cls, base) ==
    \/ cls = base
    \/ cls # "BaseException" /\ IsInstance(BaseOf(cls), base)

\* what the library call can raise
LibraryRaises ==
    {"FileNotFoundError", "PermissionError", "ConnectionError", "ConnectionResetError",
     "ValueError", "UnicodeDecodeError", "TypeError"}

NoExc == [cls |-> "None", msg |-> <<>>]

NoData == [source |-> "none", id |-> <<>>, split |-> <<>>]

LibraryError(cls) == [cls |-> cls, msg |-> <<"library error">>]

\* the except clauses of load_dataset in source order: the class each one
\* catches and the class it raises
HandlersCatchAllFirst ==
    << [catches |-> "Exception",         raises |-> "RuntimeError"],
       [catches |-> "FileNotFoundError", raises |-> "FileNotFoundError"],
       [catches |-> "ConnectionError",   raises |-> "ConnectionError"],
       [catches |-> "ValueError",        raises |-> "ValueError"] >>

HandlersNoCatchAll ==
    << [catches |-> "FileNotFoundError", raises |-> "FileNotFoundError"],
       [catches |-> "ConnectionError",   raises |-> "ConnectionError"],
       [catches |-> "ValueError",        raises |-> "ValueError"] >>

Handlers ==
    << [catches |-> "FileNotFoundError", raises |-> "FileNotFoundError"],
       [catches |-> "ConnectionError",   raises |-> "ConnectionError"],
       [catches |-> "ValueError",        raises |-> "ValueError"],
       [catches |-> "Exception",         raises |-> "RuntimeError"] >>

\* the first except clause that matches, 0 when none does
HandlerFor(cls) ==
    LET matching == {i \in 1..Len(Handlers) : IsInstance(cls, Handlers[i].catches)}
    IN  IF matching = {} THEN 0
        ELSE CHOOSE i \in matching : \A j \in matching : i <= j

\* the message of the failure each clause raises
MessageUnexpectedNoName(raises, name, splitArg) ==
    CASE raises = "FileNotFoundError" ->
             <<"Dataset '">> \o name \o <<"' not available locally or on Hugging Face Hub.">>
      [] raises = "ConnectionError" ->
             <<"Failed to download dataset '">> \o name \o <<"' due to connectivity issues.">>
      [] raises = "ValueError" ->
             <<"Dataset '">> \o name \o <<"' or split '">> \o splitArg \o <<"' is invalid.">>
      [] OTHER ->
             <<"An unexpected error occurred while loading the dataset.">>

Message(raises, name, splitArg) ==
    CASE raises = "FileNotFoundError" ->
             <<"Dataset '">> \o name \o <<"' not available locally or on Hugging Face Hub.">>
      [] raises = "ConnectionError" ->
             <<"Failed to download dataset '">> \o name \o <<"' due to connectivity issues.">>
      [] raises = "ValueError" ->
             <<"Dataset '">> \o name \o <<"' or split '">> \o splitArg \o <<"' is invalid.">>
      [] OTHER ->
             <<"An unexpected error occurred while loading dataset '">> \o name \o <<"'.">>

----------------------------------------------------------------------------
(* load_dataset: the decisions of the code *)

\* line 43: which branch follows the answer of os.path.exists
BranchAlwaysRemote(pathExists) == "remote"

BranchFor(pathExists) == IF pathExists THEN "local" ELSE "remote"

\* line 45: load_dataset(path=dataset_path, split=split)
LocalCall(path, splitArg) ==
    [branch |-> "local", target |-> path, split |-> splitArg, cache_dir |-> <<>>]

\* line 49: load_dataset(dataset_name, split=split, cache_dir=self.local_cache_dir)
RemoteCallDefaultCache(name, splitArg, cacheDir) ==
    [branch |-> "remote", target |-> name, split |-> splitArg, cache_dir |-> <<>>]

RemoteCall(name, splitArg, cacheDir) ==
    [branch |-> "remote", target |-> name, split |-> splitArg, cache_dir |-> cacheDir]

\* lines 45 and 49: the library's result is the operand of return
ReturnedNothing(data) == NoData

Returned(data) == data

\* lines 45, 51-71: a failure of the local call leaves the try block for the
\* except clauses
OnLocalFailureFallback == "remote"

OnLocalFailure == "except"

\* lines 38-49: load_dataset assigns no attribute of self and calls no
\* os.makedirs; the loader's cache directory and the directories it created
\* are what they were
LoadFrameMakesPath(cacheDir, madeDirs, path) ==
    [cache |-> cacheDir, made |-> madeDirs \cup {normpath(path)}]

LoadFrame(cacheDir, madeDirs, path) ==
    [cache |-> cacheDir, made |-> madeDirs]

\* line 20: the exist_ok argument of os.makedirs
ExistOkFalse == FALSE

ExistOk == TRUE

\* what a successful download leaves on disk: HubDir under its cache_dir
Downloaded(dirs, cacheDir) ==
    IF cacheDir = <<>> THEN dirs
    ELSE makedirs(dirs, Components(abspath(join(cacheDir, HubDir))), TRUE).fs

----------------------------------------------------------------------------
(* State machine *)

Init ==
    /\ fs = {<<"/">>, Cwd}
    /\ local_cache_dir = <<>>
    /\ made = {}
    /\ ctorArg = <<>>
    /\ ctorPre = "none"
    /\ ctorError = FALSE
    /\ pc = "none"
    /\ dataset_name = <<>>
    /\ split = <<>>
    /\ dataset_path = <<>>
    /\ existed = "unchecked"
    /\ calls = <<>>
    /\ libResult = NoData
    /\ original = NoExc
    /\ result = NoData
    /\ raised = NoExc
    /\ cause = NoExc
    /\ handled = 0

ResetInvocation ==
    /\ dataset_name' = <<>>
    /\ split' = <<>>
    /\ dataset_path' = <<>>
    /\ existed' = "unchecked"
    /\ calls' = <<>>
    /\ libResult' = NoData
    /\ original' = NoExc
    /\ result' = NoData
    /\ raised' = NoExc
    /\ cause' = NoExc
    /\ handled' = 0

\* DatasetLoader(local_cache_dir), lines 19-20
Construct(path) ==
    /\ pc \in {"none", "ready"}
    /\ LET dir == abspath(path)
           r   == makedirs(fs, Components(dir), ExistOk)
       IN  /\ ctorArg' = path
           /\ ctorPre' = IF exists(fs, dir) THEN "present" ELSE "absent"
           /\ IF r.ok
              THEN /\ local_cache_dir' = dir
                   /\ fs' = r.fs
                   /\ made' = made \cup (r.fs \ fs)
                   /\ ctorError' = FALSE
                   /\ pc' = "ready"
              ELSE /\ local_cache_dir' = <<>>
                   /\ fs' = r.fs
                   /\ made' = made \cup (r.fs \ fs)
                   /\ ctorError' = TRUE
                   /\ pc' = "none"
    /\ ResetInvocation

\* loader.load_dataset(name, splitArg) up to line 40
Call(name, splitArg) ==
    /\ pc = "ready"
    /\ pc' = "check"
    /\ dataset_name' = name
    /\ split' = splitArg
    /\ dataset_path' = join(local_cache_dir, name)
    /\ existed' = "unchecked"
    /\ calls' = <<>>
    /\ libResult' = NoData
    /\ original' = NoExc
    /\ result' = NoData
    /\ raised' = NoExc
    /\ cause' = NoExc
    /\ handled' = 0
    /\ LET f == LoadFrame(local_cache_dir, made, join(local_cache_dir, name))
       IN  local_cache_dir' = f.cache /\ made' = f.made
    /\ UNCHANGED <<fs, ctorArg, ctorPre, ctorError>>

\* line 43
CheckExists ==
    /\ pc = "check"
    /\ LET e == exists(fs, dataset_path)
       IN  /\ existed' = IF e THEN "yes" ELSE "no"
           /\ pc' = BranchFor(e)
    /\ LET f == LoadFrame(local_cache_dir, made, dataset_path)
       IN  local_cache_dir' = f.cache /\ made' = f.made
    /\ UNCHANGED <<fs, ctorArg, ctorPre, ctorError, dataset_name, split, dataset_path, calls,
                   libResult, original, result, raised, cause, handled>>

\* line 45, the library call returns a dataset
LocalLoadReturns ==
    /\ pc = "local"
    /\ LET call == LocalCall(dataset_path, split)
           data == [source |-> "local", id |-> call.target, split |-> call.split]
       IN  /\ calls' = Append(calls, call)
           /\ libResult' = data
           /\ result' = Returned(data)
    /\ pc' = "returned"
    /\ UNCHANGED <<fs, local_cache_dir, made, ctorArg, ctorPre, ctorError, dataset_name, split,
                   dataset_path, existed, original, raised, cause, handled>>

\* line 45, the library call raises
LocalLoadRaises(cls) ==
    /\ pc = "local"
    /\ calls' = Append(calls, LocalCall(dataset_path, split))
    /\ original' = LibraryError(cls)
    /\ pc' = OnLocalFailure
    /\ UNCHANGED <<fs, local_cache_dir, made, ctorArg, ctorPre, ctorError, dataset_name, split,
                   dataset_path, existed, libResult, result, raised, cause, handled>>

\* line 49, the library call returns a dataset
RemoteLoadReturns ==
    /\ pc = "remote"
    /\ LET call == RemoteCall(dataset_name, split, local_cache_dir)
           data == [source |-> "hub", id |-> call.target, split |-> call.split]
       IN  /\ calls' = Append(calls, call)
           /\ libResult' = data
           /\ result' = Returned(data)
           /\ fs' = Downloaded(fs, call.cache_dir)
    /\ pc' = "returned"
    /\ UNCHANGED <<local_cache_dir, made, ctorArg, ctorPre, ctorError, dataset_name, split,
                   dataset_path, existed, original, raised, cause, handled>>

\* line 49, the library call raises
RemoteLoadRaises(cls) ==
    /\ pc = "remote"
    /\ calls' = Append(calls, RemoteCall(dataset_name, split, local_cache_dir))
    /\ original' = LibraryError(cls)
    /\ pc' = "except"
    /\ UNCHANGED <<fs, local_cache_dir, made, ctorArg, ctorPre, ctorError, dataset_name, split,
                   dataset_path, existed, libResult, result, raised, cause, handled>>

\* lines 51-71: the matching except clause raises its failure from the
\* original; a failure no clause matches leaves load_dataset as it is
Handle ==
    /\ pc = "except"
    /\ LET i == HandlerFor(original.cls)
       IN  IF i = 0
           THEN /\ raised' = original
                /\ cause' = NoExc
                /\ handled' = handled
           ELSE /\ raised' = [cls |-> Handlers[i].raises,
                              msg |-> Message(Handlers[i].raises, dataset_name, split)]
                /\ cause' = original
                /\ handled' = handled + 1
    /\ pc' = "raised"
    /\ UNCHANGED <<fs, local_cache_dir, made, ctorArg, ctorPre, ctorError, dataset_name, split,
                   dataset_path, existed, calls, libResult, original, result>>

\* the caller has the dataset or the failure and goes on (lines 76-77); the
\* loader is ready for the next invocation
Resume ==
    /\ pc \in {"returned", "raised"}
    /\ pc' = "ready"
    /\ ResetInvocation
    /\ UNCHANGED <<fs, local_cache_dir, made, ctorArg, ctorPre, ctorError>>

Next ==
    \/ \E path \in CacheDirInputs : Construct(path)
    \/ \E name \in DatasetNames, splitArg \in Splits : Call(name, splitArg)
    \/ CheckExists
    \/ LocalLoadReturns
    \/ \E cls \in LibraryRaises : LocalLoadRaises(cls)
    \/ RemoteLoadReturns
    \/ \E cls \in LibraryRaises : RemoteLoadRaises(cls)
    \/ Handle
    \/ Resume

Spec == Init /\ [][Next]_vars

----------------------------------------------------------------------------
(* Vocabulary of the properties *)

FourKinds == {"FileNotFoundError", "ConnectionError", "ValueError", "RuntimeError"}

\* the running invocation has computed its candidate path
InLoad == pc \in {"check", "local", "remote", "except", "returned", "raised"}

\* the running invocation is past its library call
PastCall == pc \in {"except", "returned", "raised"}

\* the kind a failure of class cls is to be surfaced as
KindOf(cls) ==
    IF IsInstance(cls, "FileNotFoundError") THEN "FileNotFoundError"
    ELSE IF IsInstance(cls, "ConnectionError") THEN "ConnectionError"
    ELSE IF IsInstance(cls, "ValueError") THEN "ValueError"
    ELSE "RuntimeError"

\* path, normalised, lies strictly below the directory dir
IsStrictDescendant(path, dir) ==
    LET p == Components(normpath(path))
        d == Components(dir)
    IN  Len(p) > Len(d) /\ SubSeq(p, 1, Len(d)) = d

\* an absolute path without empty, "." or ".." components and without a
\* trailing slash
IsNormalisedAbsolute(path) ==
    /\ isabs(path)
    /\ path = ToPath(Components(path))
    /\ \A i \in 1..Len(Components(path)) :
           Components(path)[i] \notin {<<".">>, <<".", ".">>}

\* every directory on the way from the root to path exists
AncestorsExist(path) ==
    \A n \in 0..Len(Components(path)) : ToPath(SubSeq(Components(path), 1, n)) \in fs

\* a relative name with no ".." component and at least one component that
\* is neither empty nor "."
WellFormedName(name) ==
    /\ ~isabs(name)
    /\ \A i \in 1..Len(SplitSlash(name)) : SplitSlash(name)[i] # <<".", ".">>
    /\ \E i \in 1..Len(SplitSlash(name)) : SplitSlash(name)[i] \notin {<<>>, <<".">>}

----------------------------------------------------------------------------
(* Properties *)

\* C1: when os.path.exists answered yes for the candidate path (cache
\* directory joined with the dataset name), the invocation makes the local
\* call with that path and the split, and makes no remote call, whether the
\* local call returns or raises.
LocalBranchWhenPathExists ==
    existed = "yes" =>
        /\ \A i \in 1..Len(calls) :
               /\ calls[i].branch = "local"
               /\ calls[i].target = join(local_cache_dir, dataset_name)
               /\ calls[i].split = split
        /\ PastCall => Len(calls) >= 1

LocalAttemptFailedWitness ==
    /\ pc = "raised"
    /\ existed = "yes"
    /\ Len(calls) = 1
    /\ calls[1].branch = "local"

\* C2: when os.path.exists answered no, the invocation makes the remote call
\* with the dataset name, the split and the loader's cache directory as
\* cache_dir, and makes no local call.
RemoteBranchWhenPathAbsent ==
    existed = "no" =>
        /\ \A i \in 1..Len(calls) :
               /\ calls[i].branch = "remote"
               /\ calls[i].target = dataset_name
               /\ calls[i].split = split
               /\ calls[i].cache_dir = local_cache_dir
               /\ calls[i].cache_dir # <<>>
        /\ PastCall => Len(calls) >= 1

RemoteAttemptWitness ==
    /\ pc = "returned"
    /\ existed = "no"
    /\ Len(calls) = 1
    /\ calls[1].cache_dir = local_cache_dir

\* C3: a failure raised inside load_dataset reaches the caller translated
\* into one of the four kinds, the kind fixed by the class of the original
\* failure alone (so the same after a local and after a remote call), and
\* never untranslated.
FailureTranslatedByKind ==
    pc = "raised" =>
        /\ original # NoExc
        /\ raised.cls \in FourKinds
        /\ raised.cls = KindOf(original.cls)
        /\ raised # original
        /\ handled = 1

SubclassTranslatedWitness ==
    /\ pc = "raised"
    /\ original.cls = "ConnectionResetError"
    /\ raised.cls = "ConnectionError"
    /\ calls[1].branch = "local"

\* C4: the message of the surfaced failure contains the dataset_name
\* argument, the message of the invalid-argument kind contains the split
\* argument too, and the original failure is the cause of the surfaced one.
MessageNamesDatasetAndCause ==
    pc = "raised" =>
        /\ Contains(raised.msg, dataset_name)
        /\ raised.cls = "ValueError" => Contains(raised.msg, split)
        /\ raised.cls \in FourKinds => (cause = original /\ original # NoExc)

InvalidArgumentMessageWitness ==
    /\ pc = "raised"
    /\ raised.cls = "ValueError"
    /\ dataset_name = <<"a", "/", "a">>
    /\ cause = original

\* C5: an invocation ends either returning the dataset object its one
\* library call produced, unchanged, or raising one of the four kinds and
\* returning nothing; a library call that succeeds is always returned.
ReturnsDatasetOrRaises ==
    /\ pc = "returned" =>
           /\ libResult # NoData
           /\ result = libResult
           /\ raised = NoExc
           /\ Len(calls) = 1
           /\ libResult.id = calls[1].target
    /\ pc = "raised" =>
           /\ raised.cls \in FourKinds
           /\ result = NoData
           /\ libResult = NoData
    /\ libResult # NoData => (pc = "returned" /\ raised = NoExc)

DatasetReturnedWitness ==
    /\ pc = "returned"
    /\ result.source = "hub"
    /\ result.id = dataset_name
    /\ dataset_name # <<>>

\* C6: after a construction the directory, normalised to an absolute path,
\* exists together with all its parents, whether it existed before or not;
\* a construction never fails, in particular not when the directory is
\* already there.
ConstructionLeavesDirectory ==
    ctorPre # "none" =>
        /\ ~ctorError
        /\ local_cache_dir # <<>>
        /\ IsNormalisedAbsolute(local_cache_dir)
        /\ local_cache_dir \in fs
        /\ AncestorsExist(local_cache_dir)
        /\ exists(fs, local_cache_dir)
        /\ (~Contains(ctorArg, <<".", ".">>)) =>
               (exists(fs, ctorArg) /\
                ToPath(Walk(fs, SplitSlash(ctorArg),
                            IF isabs(ctorArg) THEN <<>> ELSE Components(Cwd)).at)
                    = local_cache_dir)

ConstructedAgainWitness ==
    /\ pc = "ready"
    /\ ctorPre = "present"
    /\ ctorArg = <<"/", "c", "/", "a">>
    /\ local_cache_dir \in made
    /\ <<"/", "c">> \in made

\* C7: the not-found kind is surfaced only when the candidate path did not
\* exist and the remote call was made and reported the dataset not found.
NotFoundOnlyAfterRemote ==
    (pc = "raised" /\ raised.cls = "FileNotFoundError") =>
        /\ existed = "no"
        /\ Len(calls) = 1
        /\ calls[1].branch = "remote"
        /\ IsInstance(original.cls, "FileNotFoundError")

\* C8: an invocation makes at most one library call, local or remote; a
\* failed call is followed by no other call, and the failure is caught and
\* raised again once.
AtMostOneLibraryCall ==
    /\ Len(calls) <= 1
    /\ handled <= 1
    /\ pc = "raised" => (Len(calls) = 1 /\ handled = 1)
    /\ pc = "except" => (Len(calls) = 1 /\ handled = 0)

FailedLocalNoFallbackWitness ==
    /\ pc = "raised"
    /\ calls = <<LocalCall(dataset_path, split)>>
    /\ handled = 1

\* C9: a step of load_dataset, from its entry to its return or raise,
\* leaves the loader's cache directory path as it was and makes the loader
\* create no directory; only a construction changes either.
LoadKeepsCacheDir ==
    [][(pc \in {"check", "local", "remote", "except"} \/ pc' = "check") =>
           (local_cache_dir' = local_cache_dir /\ made' = made)]_vars

\* a download has left a directory on disk that the loader did not create
LoadLeftLibraryDirectoryWitness ==
    /\ pc = "returned"
    /\ calls[1].branch = "remote"
    /\ join(local_cache_dir, HubDir) \in fs
    /\ join(local_cache_dir, HubDir) \notin made

\* C10 as stated: for every dataset_name the candidate path is a strict
\* descendant of the cache directory.
CandidateBelowCacheForAnyName ==
    InLoad => IsStrictDescendant(dataset_path, local_cache_dir)

\* C10 amended: for every dataset_name that is relative, has no ".."
\* component and has a component that is neither empty nor ".", the
\* candidate path is a strict descendant of the cache directory.
CandidateBelowCacheForWellFormedName ==
    (InLoad /\ WellFormedName(dataset_name)) =>
        /\ IsStrictDescendant(dataset_path, local_cache_dir)
        /\ \A i \in 1..Len(calls) :
               calls[i].branch = "local" =>
                   IsStrictDescendant(calls[i].target, local_cache_dir)

WellFormedLocalLoadWitness ==
    /\ pc = "returned"
    /\ dataset_name = <<".", "/", "a">>
    /\ existed = "yes"
    /\ calls[1].branch = "local"

====
